---- MODULE Spec2Model ----
(***************************************************************************)
(* Session lifecycle of playwright-mcp-bypass: the ServerList registry     *)
(* (server.ts), the HTTP adapter with header-keyed sessions and idle       *)
(* eviction (httpServer.ts), the SSE adapter and the stdio adapter         *)
(* (program.ts), and the two shutdown paths (setupExitWatchdog and         *)
(* gracefulShutdown).                                                      *)
(*                                                                         *)
(* Execution is Node's: one thread, handlers run to their next await.      *)
(* Every action below is the code between two suspension points.           *)
(* Time is counted in ticks of 15 minutes, so the 30 minute idle window    *)
(* is 2 ticks; the 15 second force-exit timers are shorter than a tick.    *)
(* A timer is kept as the ticks left before it is due, and the activity    *)
(* of a key as the ticks since its last request (up to the idle window).   *)
(***************************************************************************)
EXTENDS Integers, Sequences, FiniteSets, TLC

\* Bounds of the model.
MaxRequests == 3      \* HTTP requests (or SSE connections) over a run
MaxSignals == 1       \* termination events (SIGINT, SIGTERM, stdin close)

\* httpServer.ts: const sessionTimeout = 30 * 60 * 1000, in ticks of 15 minutes.
sessionTimeout == 2

Ids == 1..MaxRequests
Keys == {"default", "a"}
\* Values of the Session-Id header; "" is the absent header (ctx.get gives '').
Headers == {"", "default", "a"}
Outcomes == {"ok", "fail"}

VARIABLES
  options,        \* the command line: [httpPort, port, userDataDir, browser]
  platform,       \* process.platform
  made,           \* serverFactory calls made: [sessionId, result]
  invoked,        \* tool invocations made on both dispatch paths
  mode,           \* the transport started: "http", "sse" or "stdio"
  proc,           \* "running", or how the process ended
  servers,        \* ServerList._servers: sequence of instance ids
  reqs,           \* HTTP requests: [pc, key, server]
  sessions,       \* HTTP sessions map: key -> instance id, 0 when absent
  sessionTimers,  \* HTTP sessionTimers map: key -> timer id, 0 when absent
  armed,          \* timer id -> ticks left before it is due, NotArmed otherwise
  idle,           \* key -> ticks since the last request on it, up to sessionTimeout
  rels,           \* every server.close() call made: [kind, id, inst, st]
  hxCalls,        \* number of handleExit invocations
  gsCalls,        \* number of gracefulShutdown invocations
  gsDone,         \* number of httpServer.close callbacks that have run
  force,          \* a 15 s force-exit timer is armed
  conns,          \* SSE connections: [pc, open]
  sseSessions,    \* SSE sessions map: the set of its keys (connection ids)
  ssePost,        \* SSE adapter: the last POST, [key, status]
  stdio,          \* stdio adapter: "off", "creating", "connected", "failed"
  wire,           \* HTTP requests as received: [hdr, method, path, name, body]
  resp            \* HTTP responses as sent: [status, body, call, handler]

vars == <<options, platform, made, invoked, mode, proc, servers, reqs, sessions, sessionTimers, armed,
          idle, rels, hxCalls, gsCalls, gsDone, force, conns,
          sseSessions, ssePost, stdio, wire, resp>>

\* What the routes read of a request and write of its response. They are
\* followed under DispatchSpec; under Spec the routes are kept abstract.
routeVars == <<wire, resp>>

\* What the program action and the server factory read, and the factory's
\* calls, and the tool invocations compared on the two dispatch paths. They
\* are followed under StartSpec, FactorySpec and CallSpec.
startVars == <<options, platform, made, invoked>>

httpVars == <<reqs, sessions, sessionTimers, armed, idle>>
sseVars == <<conns, sseSessions, ssePost>>
exitVars == <<hxCalls, gsCalls, gsDone, force>>

----------------------------------------------------------------------------
\* Helpers

\* A middleware that reads no header: every request is the default session.
SessionIdOf_IgnoresHeader(h) == "default"

\* const sessionId = ctx.get('session-id') || 'default'
SessionIdOf(h) == IF h = "" THEN "default" ELSE h

\* Array.prototype.indexOf, 1-based; 0 stands for JavaScript's -1.
IndexOf(seq, x) ==
  IF \E n \in 1..Len(seq) : seq[n] = x
  THEN CHOOSE n \in 1..Len(seq) : seq[n] = x /\ \A m \in 1..(n - 1) : seq[m] # x
  ELSE 0

\* Array.prototype.splice(index, 1)
Splice(seq, n) == SubSeq(seq, 1, n - 1) \o SubSeq(seq, n + 1, Len(seq))

Range(seq) == {seq[n] : n \in 1..Len(seq)}

\* A server.close() call: who made it, on which instance, and its state.
Rel(kind, id, inst, st) == [kind |-> kind, id |-> id, inst |-> inst, st |-> st]

Settle(r, st) == (rels \ {r}) \cup {[r EXCEPT !.st = st]}

RelsOf(kind, id) == {r \in rels : r.kind = kind /\ r.id = id}

\* ServerList.close up to its await: the registry without the instance.
\* (The server.close() call it then makes is the Rel the caller adds.)
RegistryAfterClose(seq, inst) ==
  IF IndexOf(seq, inst) # 0 THEN Splice(seq, IndexOf(seq, inst)) ELSE seq

NotArmed == -1

Running == proc = "running"

\* A rejection nothing handles: Node >= 18 (package.json "engines") raises it
\* as an uncaught exception, which ends the process with exit code 1. No
\* 'unhandledRejection' or 'uncaughtException' listener is registered.
UnhandledRejection == proc' = "crash"

----------------------------------------------------------------------------
\* Initial state: program.ts has chosen one transport; nothing is created yet,
\* except that the stdio adapter is already awaiting serverList.create().

NoReq == [pc |-> "new", key |-> "default", server |-> 0]
NoConn == [pc |-> "new", open |-> FALSE]
NoPost == [key |-> 0, status |-> "none"]
NoWire == [hdr |-> "", method |-> "", path |-> "", name |-> "", body |-> ""]
\* No call of server.callTool.
NoCall == [name |-> "", args |-> ""]
\* No call of tool.handle.
NotCalled == [kind |-> "none", isError |-> FALSE, text |-> ""]
NoResp ==
  [status |-> 0, body |-> [type |-> "none"], call |-> NoCall, handler |-> NotCalled]

\* An option that was not given. Option values are strings.
Undefined == "undefined"

\* JavaScript truthiness of an option value: if (options.httpPort)
Truthy(v) == v \notin {Undefined, ""}

\* An adapter selection in which --port is looked at first.
TransportOf_PortFirst(o) ==
  IF Truthy(o.port) THEN "sse"
  ELSE IF Truthy(o.httpPort) THEN "http"
  ELSE "stdio"

\* if (options.httpPort) ... else if (options.port) ... else stdio
TransportOf(o) ==
  IF Truthy(o.httpPort) THEN "http"
  ELSE IF Truthy(o.port) THEN "sse"
  ELSE "stdio"

\* A path is the sequence of its segments; the empty sequence stands for a
\* path, or a session id, that was not given.
NoPath == << >>

\* One command line for each transport, without --user-data-dir.
Launches ==
  { [httpPort |-> "8931", port |-> Undefined, userDataDir |-> NoPath, browser |-> Undefined],
    [httpPort |-> Undefined, port |-> "8931", userDataDir |-> NoPath, browser |-> Undefined],
    [httpPort |-> Undefined, port |-> Undefined, userDataDir |-> NoPath, browser |-> Undefined] }

\* The state after the synchronous part of the program action, for a command
\* line among L on platform among P.
InitWith(L, P) ==
  /\ options \in L
  /\ platform \in P
  /\ made = << >>
  /\ invoked = << >>
  /\ mode = TransportOf(options)
  /\ proc = "running"
  /\ servers = << >>
  /\ reqs = [r \in Ids |-> NoReq]
  /\ sessions = [k \in Keys |-> 0]
  /\ sessionTimers = [k \in Keys |-> 0]
  /\ armed = [t \in Ids |-> NotArmed]
  /\ idle = [k \in Keys |-> sessionTimeout]
  /\ rels = {}
  /\ hxCalls = 0
  /\ gsCalls = 0
  /\ gsDone = 0
  /\ force = FALSE
  /\ conns = [c \in Ids |-> NoConn]
  /\ sseSessions = {}
  /\ ssePost = NoPost
  /\ stdio = IF mode = "stdio" THEN "creating" ELSE "off"
  /\ wire = [r \in Ids |-> NoWire]
  /\ resp = [r \in Ids |-> NoResp]

Init == InitWith(Launches, {"linux"})

----------------------------------------------------------------------------
\* HTTP adapter: session middleware and routes

\* Requests are numbered in order of arrival.
NextReq(r) == reqs[r].pc = "new" /\ (IF r = 1 THEN TRUE ELSE reqs[r - 1].pc # "new")

InFlight == {r \in Ids : reqs[r].pc \in {"creating", "dispatch"}}

\* The key a timer was armed for (the sessionId its callback closes over).
KeyOfTimer(t) == reqs[t].key

\* A middleware keeping one timer for all keys: arming it clears the others.
ArmedAfterReset_ClearsAll(r, k) ==
  [t \in Ids |-> IF t = r THEN sessionTimeout ELSE NotArmed]

\* Middleware, lines 337-350: clearTimeout of the recorded timer, setTimeout of
\* a new one (identified by the request that arms it), sessionTimers.set.
ArmedAfterReset(r, k) ==
  [t \in Ids |-> IF t = r THEN sessionTimeout
                 ELSE IF t = sessionTimers[k] THEN NotArmed
                 ELSE armed[t]]

\* Middleware from the timer reset to the start of the route's tool call.
ResetTimerAndDispatch(r, k, srv) ==
  /\ armed' = ArmedAfterReset(r, k)
  /\ sessionTimers' = [sessionTimers EXCEPT ![k] = r]
  /\ idle' = [idle EXCEPT ![k] = 0]
  /\ reqs' = [reqs EXCEPT ![r] = [pc |-> "dispatch", key |-> k, server |-> srv]]

\* A middleware that gives a request an instance of its own while another
\* request is being dispatched on the instance of its key.
SessionMiddleware_BusyCreates(r, h) ==
  /\ Running /\ mode = "http" /\ gsDone = 0
  /\ NextReq(r)
  /\ LET k == SessionIdOf(h) IN
       IF sessions[k] # 0
          /\ ~\E q \in Ids : reqs[q].pc = "dispatch" /\ reqs[q].server = sessions[k]
       THEN /\ ResetTimerAndDispatch(r, k, sessions[k])
            /\ UNCHANGED sessions
       ELSE /\ reqs' = [reqs EXCEPT ![r] = [pc |-> "creating", key |-> k, server |-> 0]]
            /\ UNCHANGED <<sessions, sessionTimers, armed, idle>>
  /\ UNCHANGED <<startVars, mode, proc, servers, rels, exitVars, sseVars, stdio>>

\* The session middleware for a request with header h. With the key bound it
\* runs to the tool call; otherwise it stops at
\* `await serverList.create(sessionId)`.
SessionMiddleware(r, h) ==
  /\ Running /\ mode = "http" /\ gsDone = 0
  /\ NextReq(r)
  /\ LET k == SessionIdOf(h) IN
       IF sessions[k] # 0
       THEN /\ ResetTimerAndDispatch(r, k, sessions[k])
            /\ UNCHANGED sessions
       ELSE /\ reqs' = [reqs EXCEPT ![r] = [pc |-> "creating", key |-> k, server |-> 0]]
            /\ UNCHANGED <<sessions, sessionTimers, armed, idle>>
  /\ UNCHANGED <<startVars, mode, proc, servers, rels, exitVars, sseVars, stdio>>

\* A request arrives with header h (any method, any path under /tools).
Arrive(r, h) == SessionMiddleware(r, h) /\ UNCHANGED routeVars

\* The factory resolves: ServerList.create pushes the instance (named after
\* the creating request), the middleware binds it and goes on.
CreateOk(r) ==
  /\ Running /\ reqs[r].pc = "creating"
  /\ servers' = Append(servers, r)
  /\ sessions' = [sessions EXCEPT ![reqs[r].key] = r]
  /\ ResetTimerAndDispatch(r, reqs[r].key, r)
  /\ UNCHANGED <<startVars, routeVars, mode, proc, rels, exitVars, sseVars, stdio>>

\* The factory rejects: create throws before the push and the middleware
\* throws before sessions.set.
CreateRejects(r) ==
  /\ Running /\ reqs[r].pc = "creating"
  /\ reqs' = [reqs EXCEPT ![r].pc = "failed"]
  /\ UNCHANGED <<startVars, mode, proc, servers, sessions, sessionTimers, armed,
                 idle, rels, exitVars, sseVars, stdio>>

\* ... and Koa answers the request with an error.
CreateFail(r) == CreateRejects(r) /\ UNCHANGED routeVars

\* The route handler ends: the tool call has settled.
RouteEnds(r) ==
  /\ Running /\ reqs[r].pc = "dispatch"
  /\ reqs' = [reqs EXCEPT ![r].pc = "done"]
  /\ UNCHANGED <<startVars, mode, proc, servers, sessions, sessionTimers, armed,
                 idle, rels, exitVars, sseVars, stdio>>

\* ... and the response is set.
Complete(r) == RouteEnds(r) /\ UNCHANGED routeVars

\* An armed timer whose deadline has come fires. Its callback reads the
\* binding of its key; with one, it enters serverList.close (splice, then
\* server.close()) and waits; with none it only deletes the timer entry.
TimerFire(t) ==
  /\ Running /\ armed[t] = 0
  /\ armed' = [armed EXCEPT ![t] = NotArmed]
  /\ LET k == KeyOfTimer(t) IN
       IF sessions[k] # 0
       THEN /\ servers' = RegistryAfterClose(servers, sessions[k])
            /\ rels' = rels \cup {Rel("ev", t, sessions[k], "pending")}
            /\ UNCHANGED sessionTimers
       ELSE /\ sessionTimers' = [sessionTimers EXCEPT ![k] = 0]
            /\ UNCHANGED <<servers, rels>>
  /\ UNCHANGED <<startVars, routeVars, mode, proc, reqs, sessions, idle, exitVars,
                 sseVars, stdio>>

\* The release awaited by the callback of timer t resolves: the callback
\* deletes the entries of its key from both maps.
EvictionResumes(t) ==
  /\ Running
  /\ \E r \in RelsOf("ev", t) :
       /\ r.st = "pending"
       /\ rels' = Settle(r, "ok")
  /\ sessions' = [sessions EXCEPT ![KeyOfTimer(t)] = 0]
  /\ sessionTimers' = [sessionTimers EXCEPT ![KeyOfTimer(t)] = 0]
  /\ UNCHANGED <<startVars, routeVars, mode, proc, servers, reqs, armed, idle,
                 exitVars, sseVars, stdio>>

\* The release rejects: the await throws out of the callback, which has no
\* handler, so neither delete runs.
EvictionRejects(t) ==
  /\ Running
  /\ \E r \in RelsOf("ev", t) :
       /\ r.st = "pending"
       /\ rels' = Settle(r, "fail")
  /\ UnhandledRejection
  /\ UNCHANGED <<startVars, routeVars, mode, servers, httpVars, exitVars, sseVars, stdio>>

\* A quarter of an hour passes. Timers fire on time (a due timer fires or is
\* cleared first), and a force-exit timer is over long before.
Tick ==
  /\ Running /\ mode = "http"
  /\ ~force
  /\ \A t \in Ids : armed[t] # 0
  /\ armed' = [t \in Ids |-> IF armed[t] = NotArmed THEN NotArmed ELSE armed[t] - 1]
  /\ idle' = [k \in Keys |-> IF idle[k] < sessionTimeout THEN idle[k] + 1 ELSE idle[k]]
  /\ UNCHANGED <<startVars, routeVars, mode, proc, servers, reqs, sessions, sessionTimers, rels,
                 exitVars, sseVars, stdio>>

----------------------------------------------------------------------------
\* HTTP adapter: the routes under /tools, callTool and the response

Methods == {"GET", "POST"}

\* The tools registered on every instance, and the names requests carry.
Tools == {"browser_tab_list", "browser_navigate"}
Names == Tools \cup {"no_such_tool"}

\* What tool.handle does with a call: it returns a result (with or without
\* isError; text is the text content, "" when there is none) or it throws an
\* Error (text is its message; a parameter the schema rejects throws too).
HandlerOutcomes ==
  {[kind |-> "returns", isError |-> FALSE, text |-> "page content"],
   [kind |-> "returns", isError |-> TRUE, text |-> "Failed to extract content"],
   [kind |-> "returns", isError |-> TRUE, text |-> ""],
   [kind |-> "throws", isError |-> FALSE, text |-> "url: Required"],
   [kind |-> "throws", isError |-> FALSE, text |-> ""]}

\* String(error.message || error) for an Error whose message is m: an empty
\* message is falsy, and String(new Error('')) is "Error".
ErrorMessage(m) == IF m # "" THEN m ELSE "Error"

\* callTool answering an unknown name with a result, as the MCP CallTool
\* handler does, instead of throwing.
callTool_NotFoundAsResult(name, o) ==
  IF name \notin Tools
  THEN [threw |-> FALSE, value |-> "Tool \"" \o name \o "\" not found",
        handled |-> FALSE]
  ELSE IF o.kind = "returns" /\ ~o.isError
  THEN [threw |-> FALSE, value |-> o.text, handled |-> TRUE]
  ELSE [threw |-> TRUE, value |-> ErrorMessage(o.text), handled |-> TRUE]

\* callTool without the isError test on the handler's result.
callTool_IgnoresIsError(name, o) ==
  IF name \notin Tools
  THEN [threw |-> TRUE, value |-> "Tool \"" \o name \o "\" not found",
        handled |-> FALSE]
  ELSE IF o.kind = "returns"
  THEN [threw |-> FALSE, value |-> o.text, handled |-> TRUE]
  ELSE [threw |-> TRUE, value |-> ErrorMessage(o.text), handled |-> TRUE]

\* server.callTool(name, args), given what the handler does: whether it
\* threw, the result or the message, and whether tool.handle was invoked.
callTool(name, o) ==
  IF name \notin Tools
  THEN [threw |-> TRUE, value |-> "Tool \"" \o name \o "\" not found",
        handled |-> FALSE]
  ELSE IF o.kind = "returns" /\ ~o.isError
  THEN [threw |-> FALSE, value |-> o.text, handled |-> TRUE]
  ELSE LET thrown == IF o.kind = "throws" THEN o.text
                     ELSE IF o.text # "" THEN o.text
                     ELSE "Tool \"" \o name \o "\" execution failed"
       IN [threw |-> TRUE, value |-> ErrorMessage(thrown), handled |-> TRUE]

\* String(error) for an Error whose message is m.
ErrorString(m) == IF m = "" THEN "Error" ELSE "Error: " \o m

\* An MCP handler that lets a handler's exception pass as a plain result.
CallToolRequest_SwallowsThrow(name, o) ==
  IF name \notin Tools
  THEN [isError |-> TRUE, text |-> "Tool \"" \o name \o "\" not found",
        handled |-> FALSE]
  ELSE [isError |-> o.isError, text |-> o.text, handled |-> TRUE]

\* The handler of CallToolRequestSchema (the MCP path), given what the
\* tool's handler does: the result returned, and whether tool.handle ran.
CallToolRequest(name, o) ==
  IF name \notin Tools
  THEN [isError |-> TRUE, text |-> "Tool \"" \o name \o "\" not found",
        handled |-> FALSE]
  ELSE IF o.kind = "returns"
  THEN [isError |-> o.isError, text |-> o.text, handled |-> TRUE]
  ELSE [isError |-> TRUE, text |-> ErrorString(o.text), handled |-> TRUE]

\* Bound: the invocations compared.
MaxInvocations == 2

\* One invocation of tool `name`, the tool's handler doing o, made on both
\* paths with the same arguments.
Invoke(name, o) ==
  /\ Len(invoked) < MaxInvocations
  /\ invoked' = Append(invoked, [name |-> name, outcome |-> o,
                                 http |-> callTool(name, o),
                                 mcp |-> CallToolRequest(name, o)])
  /\ UNCHANGED <<options, platform, made, routeVars, mode, proc, servers, httpVars,
                 rels, exitVars, sseVars, stdio>>

\* The try/catch of a tool route around callTool(name, args).
ToolRoute(name, args, o) ==
  LET c == callTool(name, o) IN
    IF c.threw
    THEN [status |-> 500,
          body |-> [type |-> "json", success |-> FALSE,
                    error |-> ErrorMessage(c.value)],
          call |-> [name |-> name, args |-> args],
          handler |-> IF c.handled THEN o ELSE NotCalled]
    ELSE [status |-> 200,
          body |-> [type |-> "json", success |-> TRUE, result |-> c.value],
          call |-> [name |-> name, args |-> args],
          handler |-> IF c.handled THEN o ELSE NotCalled]

\* A listing that advertises every tool under POST.
OpenApiPaths_AllPost ==
  {[path |-> "/tools/" \o n, method |-> "post", operationId |-> n] : n \in Tools}

\* The paths of the discovery listing: one per registered tool, GET for
\* browser_tab_list and POST for the others.
OpenApiPaths ==
  {[path |-> "/tools/" \o n,
    method |-> IF n = "browser_tab_list" THEN "get" ELSE "post",
    operationId |-> n] : n \in Tools}

\* router.get('/openapi.json'): the listing of the tools registered on
\* ctx.state.server.
OpenApiRoute ==
  [status |-> 200, body |-> [type |-> "openapi", paths |-> OpenApiPaths],
   call |-> NoCall, handler |-> NotCalled]

\* router.allowedMethods(): the path matches a route, the method does not.
MethodNotAllowed ==
  [status |-> 405, body |-> [type |-> "text", text |-> "Method Not Allowed"],
   call |-> NoCall, handler |-> NotCalled]

\* Koa's default response when no route has set a status or a body.
NotFound ==
  [status |-> 404, body |-> [type |-> "text", text |-> "Not Found"],
   call |-> NoCall, handler |-> NotCalled]

\* Koa's default handling of an error thrown by a middleware.
KoaOnError ==
  [status |-> 500, body |-> [type |-> "text", text |-> "Internal Server Error"],
   call |-> NoCall, handler |-> NotCalled]

\* const params = ctx.request.body || {}
ParamsOf(body) == IF body = "" THEN "{}" ELSE body

\* A GET on /tools/<name> dispatching whatever tool is named.
Router_GetAnyTool(w, o) ==
  IF w.path = "/openapi.json"
  THEN IF w.method = "GET" THEN OpenApiRoute ELSE MethodNotAllowed
  ELSE IF w.path # "/tools" THEN NotFound
  ELSE IF w.method = "POST" THEN ToolRoute(w.name, ParamsOf(w.body), o)
  ELSE ToolRoute(w.name, "{}", o)

\* router.routes() for request w: GET /openapi.json; under /tools, POST
\* /tools/:toolName takes every name, GET only /tools/browser_tab_list.
Router(w, o) ==
  IF w.path = "/openapi.json"
  THEN IF w.method = "GET" THEN OpenApiRoute ELSE MethodNotAllowed
  ELSE IF w.path # "/tools" THEN NotFound
  ELSE IF w.method = "POST" THEN ToolRoute(w.name, ParamsOf(w.body), o)
  ELSE IF w.method = "GET" /\ w.name = "browser_tab_list"
       THEN ToolRoute("browser_tab_list", "{}", o)
  ELSE MethodNotAllowed

\* The URLs requested: /tools/<name>, /openapi.json and a path without a
\* route.
Urls ==
  {[path |-> "/tools", name |-> n] : n \in Names}
    \cup {[path |-> "/openapi.json", name |-> ""], [path |-> "/", name |-> ""]}

\* Request bodies: none, or a JSON object of parameters.
Bodies == {"", "{url}"}

\* Bound: the requests followed through the routes.
MaxCalls == 2

\* The router refuses request w: no route for the path, or none for the
\* method on it.
Rejects(w) == \A o \in HandlerOutcomes : Router(w, o).status \in {404, 405}

\* A server that routes first: a request the router refuses is answered
\* before the session middleware has run.
Request_RoutesFirst(r, h, m, u, b) ==
  LET w == [hdr |-> h, method |-> m, path |-> u.path, name |-> u.name, body |-> b]
  IN /\ r <= MaxCalls
     /\ wire' = [wire EXCEPT ![r] = w]
     /\ IF Rejects(w)
        THEN /\ Running /\ mode = "http" /\ gsDone = 0
             /\ NextReq(r)
             /\ reqs' = [reqs EXCEPT ![r] = [pc |-> "done", key |-> SessionIdOf(h),
                                             server |-> 0]]
             /\ resp' = [resp EXCEPT ![r] = Router(w, NotCalled)]
             /\ UNCHANGED <<startVars, mode, proc, servers, sessions, sessionTimers,
                            armed, idle, rels, exitVars, sseVars, stdio>>
        ELSE /\ SessionMiddleware(r, h)
             /\ UNCHANGED resp

\* Request r arrives as `m u` with header h and body b.
Request(r, h, m, u, b) ==
  /\ r <= MaxCalls
  /\ SessionMiddleware(r, h)
  /\ wire' = [wire EXCEPT ![r] = [hdr |-> h, method |-> m, path |-> u.path,
                                  name |-> u.name, body |-> b]]
  /\ UNCHANGED resp

\* The factory rejects for request r and Koa sends its error response.
CreateFailResponds(r) ==
  /\ CreateRejects(r)
  /\ resp' = [resp EXCEPT ![r] = KoaOnError]
  /\ UNCHANGED wire

\* A route that drops the session of a request ending with an error.
Respond_ErrorEndsSession(r, o) ==
  /\ Running /\ reqs[r].pc = "dispatch"
  /\ reqs' = [reqs EXCEPT ![r].pc = "done"]
  /\ resp' = [resp EXCEPT ![r] = Router(wire[r], o)]
  /\ sessions' = IF resp'[r].status = 500
                 THEN [sessions EXCEPT ![reqs[r].key] = 0] ELSE sessions
  /\ UNCHANGED <<startVars, mode, proc, servers, sessionTimers, armed, idle, rels,
                 exitVars, sseVars, stdio, wire>>

\* The router handles request r, the handler (if called) doing o, and the
\* response is sent.
Respond(r, o) ==
  /\ RouteEnds(r)
  /\ resp' = [resp EXCEPT ![r] = Router(wire[r], o)]
  /\ UNCHANGED wire

----------------------------------------------------------------------------
\* Shutdown: setupExitWatchdog's handleExit and the HTTP gracefulShutdown

\* ServerList.close, up to its await, for each instance of a set in turn.
RECURSIVE CloseEach(_, _)
CloseEach(seq, insts) ==
  IF insts = {} THEN seq
  ELSE LET i == CHOOSE x \in insts : TRUE
       IN CloseEach(RegistryAfterClose(seq, i), insts \ {i})

\* closeAll up to its await: server.close() on every registered instance.
\* The registry itself is not touched.
CloseAllCalls(j) == {Rel("hx", j, servers[n], "pending") : n \in 1..Len(servers)}

\* handleExit awaiting closeAll without a force-exit timer.
HandleExitStart_NoForceTimer ==
  /\ hxCalls' = hxCalls + 1
  /\ force' = force
  /\ rels' = rels \cup CloseAllCalls(hxCalls + 1)
  /\ proc' = IF servers = << >> THEN "exit:handleExit" ELSE "running"

\* handleExit up to `await serverList.closeAll()`: it arms its force-exit
\* timer and starts closeAll. With nothing registered Promise.all([]) is
\* already resolved and process.exit(0) follows at once.
HandleExitStart ==
  /\ hxCalls' = hxCalls + 1
  /\ force' = TRUE
  /\ rels' = rels \cup CloseAllCalls(hxCalls + 1)
  /\ proc' = IF servers = << >> THEN "exit:handleExit" ELSE "running"

\* SIGINT or SIGTERM: handleExit runs, then (HTTP) gracefulShutdown, which
\* calls httpServer.close(cb) and arms its own force-exit timer. On the SSE
\* and stdio adapters this action is also the close of stdin.
Signal ==
  /\ Running /\ hxCalls < MaxSignals
  /\ HandleExitStart
  /\ gsCalls' = IF mode = "http" THEN gsCalls + 1 ELSE gsCalls
  /\ UNCHANGED <<startVars, routeVars, mode, servers, httpVars, gsDone, sseVars, stdio>>

\* stdin closes (once) under the HTTP adapter: handleExit alone runs.
StdinClose ==
  /\ Running /\ mode = "http" /\ hxCalls < MaxSignals /\ hxCalls = gsCalls
  /\ HandleExitStart
  /\ UNCHANGED <<startVars, routeVars, mode, servers, httpVars, gsCalls, gsDone, sseVars, stdio>>

\* A release started by closeAll resolves. When it was the last one,
\* Promise.all resolves and handleExit calls process.exit(0).
CloseAllReleaseOk(j, i) ==
  /\ Running
  /\ Rel("hx", j, i, "pending") \in rels
  /\ rels' = Settle(Rel("hx", j, i, "pending"), "ok")
  /\ proc' = IF \A r \in RelsOf("hx", j) : r.st = "ok" \/ r.inst = i
             THEN "exit:handleExit" ELSE "running"
  /\ UNCHANGED <<startVars, routeVars, mode, servers, httpVars, exitVars, sseVars, stdio>>

\* A release started by closeAll rejects. Promise.all rejects with the first
\* rejection, handleExit's await throws and nothing handles it.
CloseAllReleaseFails(j, i) ==
  /\ Running
  /\ Rel("hx", j, i, "pending") \in rels
  /\ rels' = Settle(Rel("hx", j, i, "pending"), "fail")
  /\ IF \E r \in RelsOf("hx", j) : r.st = "fail"
     THEN UNCHANGED proc
     ELSE UnhandledRejection
  /\ UNCHANGED <<startVars, routeVars, mode, servers, httpVars, exitVars, sseVars, stdio>>

\* The callback of httpServer.close runs once the connections are gone: it
\* closes every bound session through serverList.close, clears and deletes
\* the timers of the bound keys, clears the sessions map and awaits the
\* releases; with none to await it exits at once.
GracefulCallback ==
  /\ Running /\ mode = "http" /\ gsDone < gsCalls /\ InFlight = {}
  /\ gsDone' = gsDone + 1
  /\ LET bound == {k \in Keys : sessions[k] # 0}
         insts == {sessions[k] : k \in bound}
     IN /\ servers' = CloseEach(servers, insts)
        /\ rels' = rels \cup {Rel("gs", gsDone + 1, i, "pending") : i \in insts}
        /\ armed' = [t \in Ids |->
                       IF \E k \in bound : sessionTimers[k] = t THEN NotArmed ELSE armed[t]]
        /\ sessionTimers' = [k \in Keys |-> IF k \in bound THEN 0 ELSE sessionTimers[k]]
        /\ sessions' = [k \in Keys |-> 0]
        /\ proc' = IF insts = {} THEN "exit:graceful" ELSE "running"
  /\ UNCHANGED <<startVars, routeVars, mode, reqs, idle, hxCalls, gsCalls, force,
                 sseVars, stdio>>

\* A release awaited by the callback resolves; after the last one it exits.
GracefulReleaseOk(g, i) ==
  /\ Running
  /\ Rel("gs", g, i, "pending") \in rels
  /\ rels' = Settle(Rel("gs", g, i, "pending"), "ok")
  /\ proc' = IF \A r \in RelsOf("gs", g) : r.st = "ok" \/ r.inst = i
             THEN "exit:graceful" ELSE "running"
  /\ UNCHANGED <<startVars, routeVars, mode, servers, httpVars, exitVars, sseVars, stdio>>

\* A release awaited by the callback rejects: Promise.all rejects, the catch
\* logs and the finally block exits.
GracefulReleaseFails(g, i) ==
  /\ Running
  /\ Rel("gs", g, i, "pending") \in rels
  /\ rels' = Settle(Rel("gs", g, i, "pending"), "fail")
  /\ proc' = "exit:graceful"
  /\ UNCHANGED <<startVars, routeVars, mode, servers, httpVars, exitVars, sseVars, stdio>>

\* A force-exit timer fires 15 seconds after its signal.
ForceExit ==
  /\ Running /\ force
  /\ proc' = "exit:force"
  /\ UNCHANGED <<startVars, routeVars, mode, servers, httpVars, rels, exitVars, sseVars, stdio>>

----------------------------------------------------------------------------
\* SSE adapter

\* Connections are numbered in order of acceptance; the transport's fresh
\* sessionId and the instance created for it carry the same number.
NextConn(c) == conns[c].pc = "new" /\ (IF c = 1 THEN TRUE ELSE conns[c - 1].pc # "new")

\* GET: the transport is put in the sessions map, then the handler stops at
\* `await serverList.create(sessionId)`.
SseGet(c) ==
  /\ Running /\ mode = "sse"
  /\ NextConn(c)
  /\ conns' = [conns EXCEPT ![c] = [pc |-> "creating", open |-> TRUE]]
  /\ sseSessions' = sseSessions \cup {c}
  /\ UNCHANGED <<startVars, routeVars, mode, proc, servers, httpVars, rels, exitVars,
                 ssePost, stdio>>

\* The factory resolves: create pushes the instance, the handler registers
\* the 'close' listener and connects.
SseCreateOk(c) ==
  /\ Running /\ conns[c].pc = "creating"
  /\ servers' = Append(servers, c)
  /\ conns' = [conns EXCEPT ![c].pc = "bound"]
  /\ UNCHANGED <<startVars, routeVars, mode, proc, httpVars, rels, exitVars, sseSessions,
                 ssePost, stdio>>

\* The factory rejects: the request handler's promise rejects unhandled.
SseCreateFail(c) ==
  /\ Running /\ conns[c].pc = "creating"
  /\ conns' = [conns EXCEPT ![c].pc = "failed"]
  /\ UnhandledRejection
  /\ UNCHANGED <<startVars, routeVars, mode, servers, httpVars, rels, exitVars, sseSessions,
                 ssePost, stdio>>

\* The connection closes. The 'close' listener, if it is registered by then,
\* deletes the key and calls serverList.close(server).catch(...).
SseConnClose(c) ==
  /\ Running /\ conns[c].open
  /\ conns' = [conns EXCEPT ![c].open = FALSE]
  /\ IF conns[c].pc = "bound"
     THEN /\ sseSessions' = sseSessions \ {c}
          /\ servers' = RegistryAfterClose(servers, c)
          /\ rels' = rels \cup {Rel("sse", c, c, "pending")}
     ELSE UNCHANGED <<sseSessions, servers, rels>>
  /\ UNCHANGED <<startVars, routeVars, mode, proc, httpVars, exitVars, ssePost, stdio>>

\* POST with ?sessionId=<k> (k = 0: no sessionId parameter): 400 without
\* the parameter, 404 when the sessions map has no transport for it, and
\* otherwise the request is handed to transport.handlePostMessage.
SsePost(k) ==
  /\ Running /\ mode = "sse"
  /\ ssePost' = [key |-> k,
                 status |-> IF k = 0 THEN "400"
                            ELSE IF k \notin sseSessions THEN "404"
                            ELSE "handlePostMessage"]
  /\ UNCHANGED <<startVars, routeVars, mode, proc, servers, httpVars, rels, exitVars,
                 conns, sseSessions, stdio>>

\* The release started by the 'close' listener settles; a rejection is caught.
SseReleaseSettles(c, o) ==
  /\ Running
  /\ Rel("sse", c, c, "pending") \in rels
  /\ rels' = Settle(Rel("sse", c, c, "pending"), o)
  /\ UNCHANGED <<startVars, routeVars, mode, proc, servers, httpVars, exitVars, sseVars, stdio>>

----------------------------------------------------------------------------
\* stdio adapter: one serverList.create() without a session id (instance 1)

StdioCreateOk ==
  /\ Running /\ stdio = "creating"
  /\ servers' = Append(servers, 1)
  /\ stdio' = "connected"
  /\ UNCHANGED <<startVars, routeVars, mode, proc, httpVars, rels, exitVars, sseVars>>

StdioCreateFail ==
  /\ Running /\ stdio = "creating"
  /\ stdio' = "failed"
  /\ UnhandledRejection
  /\ UNCHANGED <<startVars, routeVars, mode, servers, httpVars, rels, exitVars, sseVars>>

----------------------------------------------------------------------------
\* The server factory and createUserDataDir

MaxSegments == 2       \* path segments in a session id
MaxFactoryCalls == 2   \* serverFactory calls followed

\* A session id is the sequence of the segments of its text between '/'.
Segments == {"default", "a", "b", ".", ".."}
SessionIds == {NoPath} \cup UNION {[1..n -> Segments] : n \in 1..MaxSegments}

Platforms == {"linux", "darwin", "win32", "aix"}
Browsers == {Undefined, "firefox"}

\* The switch on options.browser.
BrowserNameOf(b) ==
  IF b \in {"firefox", "webkit"} THEN b ELSE "chromium"

\* The cache directory of a platform (XDG_CACHE_HOME and LOCALAPPDATA unset).
CacheDirectory(pf) ==
  IF pf = "linux" THEN <<"home", ".cache">>
  ELSE IF pf = "darwin" THEN <<"home", "Library", "Caches">>
  ELSE <<"home", "AppData", "Local">>

\* path.normalize: '.' and empty segments are dropped, '..' takes the
\* segment before it away (there is none above the root).
RECURSIVE Normalize(_, _)
Normalize(done, todo) ==
  IF todo = << >> THEN done
  ELSE LET seg == Head(todo) IN
       Normalize(IF seg \in {"", "."} THEN done
                 ELSE IF seg = ".."
                      THEN (IF done = << >> THEN done
                            ELSE SubSeq(done, 1, Len(done) - 1))
                 ELSE Append(done, seg),
                 Tail(todo))

\* path.join of absolute a with b and c.
PathJoin(a, b, c) == Normalize(<< >>, a \o b \o c)

\* sessionId && sessionId !== 'default'
HasSuffix(sid) == sid \notin {NoPath, <<"">>, <<"default">>}

\* `mcp-${browserName}-profile${profileSuffix}`, as segments: the text of
\* the session id goes on after the '-', its '/' included.
ProfileDirName(browserName, sid) ==
  IF HasSuffix(sid)
  THEN <<"mcp-" \o browserName \o "-profile-" \o Head(sid)>> \o Tail(sid)
  ELSE <<"mcp-" \o browserName \o "-profile">>

\* createUserDataDir(browserName, sessionId)
createUserDataDir(pf, browserName, sid) ==
  IF pf \notin {"linux", "darwin", "win32"}
  THEN [threw |-> TRUE, dir |-> NoPath]
  ELSE [threw |-> FALSE,
        dir |-> PathJoin(CacheDirectory(pf), <<"ms-playwright">>,
                         ProfileDirName(browserName, sid))]

\* options.userDataDir ?? await createUserDataDir(browserName, sessionId)
effectiveUserDataDir(o, pf, sid) ==
  IF o.userDataDir # NoPath THEN [threw |-> FALSE, dir |-> o.userDataDir]
  ELSE createUserDataDir(pf, BrowserNameOf(o.browser), sid)

\* One call of the factory, for session id sid.
serverFactory(sid) ==
  /\ Len(made) < MaxFactoryCalls
  /\ made' = Append(made, [sessionId |-> sid,
                           result |-> effectiveUserDataDir(options, platform, sid)])
  /\ UNCHANGED <<options, platform, invoked, routeVars, mode, proc, servers, httpVars,
                 rels, exitVars, sseVars, stdio>>

----------------------------------------------------------------------------

Next ==
  \/ \E r \in Ids, h \in Headers : Arrive(r, h)
  \/ \E r \in Ids : CreateOk(r)
  \/ \E r \in Ids : CreateFail(r)
  \/ \E r \in Ids : Complete(r)
  \/ \E t \in Ids : TimerFire(t)
  \/ \E t \in Ids : EvictionResumes(t)
  \/ \E t \in Ids : EvictionRejects(t)
  \/ Tick
  \/ Signal
  \/ StdinClose
  \/ \E j \in 1..MaxSignals, i \in Ids : CloseAllReleaseOk(j, i)
  \/ \E j \in 1..MaxSignals, i \in Ids : CloseAllReleaseFails(j, i)
  \/ GracefulCallback
  \/ \E g \in 1..MaxSignals, i \in Ids : GracefulReleaseOk(g, i)
  \/ \E g \in 1..MaxSignals, i \in Ids : GracefulReleaseFails(g, i)
  \/ ForceExit
  \/ \E c \in Ids : SseGet(c)
  \/ \E c \in Ids : SseCreateOk(c)
  \/ \E c \in Ids : SseCreateFail(c)
  \/ \E c \in Ids : SseConnClose(c)
  \/ \E k \in Ids \cup {0} : SsePost(k)
  \/ \E c \in Ids, o \in Outcomes : SseReleaseSettles(c, o)
  \/ StdioCreateOk
  \/ StdioCreateFail

Spec == Init /\ [][Next]_vars

\* Node runs a timer that is due: an armed force-exit timer fires unless the
\* process has ended before.
LiveSpec == Spec /\ WF_vars(ForceExit)

\* The HTTP adapter with its requests followed through the routes, within
\* one idle window and without a termination signal.
InitDispatch == Init /\ mode = "http"

NextDispatch ==
  \/ \E r \in Ids, h \in Headers, m \in Methods, u \in Urls, b \in Bodies :
       Request(r, h, m, u, b)
  \/ \E r \in Ids : CreateOk(r)
  \/ \E r \in Ids : CreateFailResponds(r)
  \/ \E r \in Ids, o \in HandlerOutcomes : Respond(r, o)

DispatchSpec == InitDispatch /\ [][NextDispatch]_vars

\* The program action for every command line: each port option is absent,
\* empty or a port. The adapters are followed within one idle window.
PortValues == {Undefined, "", "8931"}

AllLaunches ==
  [httpPort : PortValues, port : PortValues, userDataDir : {NoPath}, browser : {Undefined}]

InitStart == InitWith(AllLaunches, {"linux"})

NextStart ==
  \/ \E r \in Ids, h \in Headers : Arrive(r, h)
  \/ \E r \in Ids : CreateOk(r)
  \/ \E r \in Ids : CreateFail(r)
  \/ \E r \in Ids : Complete(r)
  \/ Signal
  \/ StdinClose
  \/ \E j \in 1..MaxSignals, i \in Ids : CloseAllReleaseOk(j, i)
  \/ \E j \in 1..MaxSignals, i \in Ids : CloseAllReleaseFails(j, i)
  \/ GracefulCallback
  \/ \E g \in 1..MaxSignals, i \in Ids : GracefulReleaseOk(g, i)
  \/ \E g \in 1..MaxSignals, i \in Ids : GracefulReleaseFails(g, i)
  \/ ForceExit
  \/ \E c \in Ids : SseGet(c)
  \/ \E c \in Ids : SseCreateOk(c)
  \/ \E c \in Ids : SseCreateFail(c)
  \/ \E c \in Ids : SseConnClose(c)
  \/ \E k \in Ids \cup {0} : SsePost(k)
  \/ \E c \in Ids, o \in Outcomes : SseReleaseSettles(c, o)
  \/ StdioCreateOk
  \/ StdioCreateFail

StartSpec == InitStart /\ [][NextStart]_vars

\* The server factory as a function of the command line, the platform and
\* the session id.
FactoryLaunches ==
  [httpPort : {"8931"}, port : {Undefined}, userDataDir : {NoPath, <<"data">>},
   browser : Browsers]

InitFactory == InitWith(FactoryLaunches, Platforms)

NextFactory == \E sid \in SessionIds : serverFactory(sid)

FactorySpec == InitFactory /\ [][NextFactory]_vars

\* The two dispatch paths of an instance, as functions of the tool name and
\* of what the tool's handler does.
NextCall == \E name \in Names, o \in HandlerOutcomes : Invoke(name, o)

CallSpec == Init /\ [][NextCall]_vars

----------------------------------------------------------------------------
\* Properties

\* The key an HTTP instance was created for (the creating request's key).
KeyOfInstance(i) == reqs[i].key

\* The server.close() calls made on instance i, whatever their state.
Calls(S, i) == {<<r.kind, r.id>> : r \in {x \in S : x.inst = i}}

\* Keys whose eviction callback is waiting for its release.
Evicting == {KeyOfTimer(r.id) : r \in {x \in rels : x.kind = "ev" /\ x.st = "pending"}}

\* C1: on the HTTP adapter at most one instance is registered for a session
\* key at any instant, however the requests for the key interleave.
C1_OneInstancePerKey ==
  mode = "http" =>
    \A i, j \in Range(servers) : KeyOfInstance(i) = KeyOfInstance(j) => i = j

\* C2: whenever a timer callback starts closing the instance bound to its
\* key, no request on that key passed the middleware during the idle window
\* before it (the key has been idle for sessionTimeout).
C2_EvictionOnlyAfterIdleWindow ==
  [][\A t \in Ids :
       (/\ armed[t] = 0
        /\ armed'[t] = NotArmed
        /\ \E r \in rels' \ rels : r.kind = "ev" /\ r.id = t)
       => idle[KeyOfTimer(t)] >= sessionTimeout]_vars

\* C3: while the HTTP adapter runs, every bound key whose eviction is not
\* already under way has its recorded timer armed, and every armed timer is
\* the one recorded for its key (so there is exactly one per bound key).
C3_OneRecordedTimerPerKey ==
  (mode = "http" /\ Running) =>
    /\ \A k \in Keys \ Evicting :
         sessions[k] # 0 =>
           sessionTimers[k] # 0 /\ armed[sessionTimers[k]] # NotArmed
    /\ \A t \in Ids :
         armed[t] # NotArmed => sessionTimers[KeyOfTimer(t)] = t

\* C4: server.close is invoked at most once on any instance.
C4_ReleasedAtMostOnce ==
  \A i \in Ids : Cardinality(Calls(rels, i)) <= 1

\* C5: when the callback of an eviction timer ends, its key is in neither the
\* sessions map nor the sessionTimers map.
C5_EvictionRemovesKey ==
  [][\A t \in Ids :
       (/\ \E r \in rels : r.kind = "ev" /\ r.id = t /\ r.st = "pending"
        /\ \A r \in rels' : r.kind = "ev" /\ r.id = t => r.st # "pending")
       => sessions'[KeyOfTimer(t)] = 0 /\ sessionTimers'[KeyOfTimer(t)] = 0]_vars

\* C6: once a request on key k has completed on the instance bound to k, the
\* binding of k changes only by being removed (eviction or shutdown): no
\* later request finds k bound to another instance.
C6_BindingStableAfterCompletion ==
  [][\A k \in Keys :
       (/\ sessions[k] # 0
        /\ \E r \in Ids : /\ reqs[r].pc = "done"
                          /\ reqs[r].key = k
                          /\ reqs[r].server = sessions[k]
        /\ sessions'[k] # sessions[k])
       => sessions'[k] = 0]_vars

\* C7: no step invokes server.close on an instance that is absent from the
\* registry (closing an absent or already closed instance is a no-op).
C7_CloseAbsentIsNoOp ==
  [][\A i \in Ids :
       i \notin Range(servers) => Calls(rels', i) = Calls(rels, i)]_vars

\* C8: when closeAll has returned to handleExit (which then exits), the
\* registry is empty.
C8_RegistryEmptyAfterCloseAll ==
  proc = "exit:handleExit" => servers = << >>

\* C9: closeAll does not settle while a release it started is in progress:
\* once it has rejected (one of its releases failed), none is pending.
C9_CloseAllWaitsForAll ==
  \A j \in 1..MaxSignals :
    (\E r \in RelsOf("hx", j) : r.st = "fail")
      => \A r \in RelsOf("hx", j) : r.st # "pending"

\* C10: a failed creation registers nothing: the failed HTTP request's
\* instance and timer are in no map and not in the registry, and the failed
\* SSE connection's key is not in the SSE sessions map.
C10_FailedCreationRegistersNothing ==
  /\ \A r \in Ids :
       reqs[r].pc = "failed" =>
         /\ r \notin Range(servers)
         /\ \A k \in Keys : sessions[k] # r /\ sessionTimers[k] # r
  /\ \A c \in Ids :
       conns[c].pc = "failed" => c \notin sseSessions /\ c \notin Range(servers)

\* A request that has been answered in this step.
Answered(r) == resp[r].status = 0 /\ resp'[r].status # 0

\* The response body is a ResponseEnvelope.
IsEnvelope(b) == b.type = "json"

\* C11: every response of the HTTP adapter to a request on /tools/<name>
\* carries a ResponseEnvelope, also when the creation of the instance failed
\* in the session middleware and when the method is not allowed.
C11_EveryResponseIsEnvelope ==
  \A r \in Ids :
    (resp[r].status # 0 /\ wire[r].path = "/tools") => IsEnvelope(resp[r].body)

\* C12: a POST on an unregistered tool name is answered 500 with the envelope
\* {success:false, error:'Tool "<name>" not found'}, calls no handler, and the
\* route changes nothing of the registry, the session maps and the timers.
C12_UnknownToolNotFound ==
  [][\A r \in Ids :
       (Answered(r) /\ reqs[r].pc = "dispatch"
          /\ wire[r].path = "/tools"
          /\ wire[r].method = "POST" /\ wire[r].name \notin Tools)
       => /\ resp'[r].status = 500
          /\ resp'[r].body = [type |-> "json", success |-> FALSE,
                              error |-> "Tool \"" \o wire[r].name \o "\" not found"]
          /\ resp'[r].handler = NotCalled
          /\ UNCHANGED <<servers, sessions, sessionTimers, armed, rels>>]_vars

C12_Witness ==
  \E r \in Ids :
    /\ reqs[r].pc = "done" /\ wire[r].method = "POST"
    /\ wire[r].name = "no_such_tool"
    /\ resp[r].body.error = "Tool \"no_such_tool\" not found"

\* C13: when the handler of a found tool was called, a result without
\* isError gives 200 and {success:true, result}; a throw or a result with
\* isError gives 500 and {success:false, error}, the error being the
\* handler's message when it has one (else 'Error' for an exception and
\* 'Tool "<name>" execution failed' for a result); and the status is 200
\* exactly when success is true.
C13_DispatchNormalises ==
  [][\A r \in Ids :
       (Answered(r) /\ resp'[r].handler # NotCalled)
       => LET o == resp'[r].handler
              b == resp'[r].body
          IN /\ IsEnvelope(b)
             /\ (resp'[r].status = 200) <=> b.success
             /\ resp'[r].status \in {200, 500}
             /\ (o.kind = "returns" /\ ~o.isError)
                  => b = [type |-> "json", success |-> TRUE, result |-> o.text]
             /\ (o.kind = "throws" \/ o.isError)
                  => /\ ~b.success
                     /\ o.text # "" => b.error = o.text
                     /\ o.text = "" => b.error \in
                          {"Error", "Tool \"" \o wire[r].name \o "\" execution failed"}]_vars

C13_Witness ==
  /\ \E r \in Ids : resp[r].status = 200 /\ resp[r].handler.kind = "returns"
  /\ \E r \in Ids : resp[r].status = 500 /\ resp[r].handler.isError

\* C14: the end of a request with an error envelope changes nothing of its
\* session: the key stays bound to the instance it was bound to, the
\* instance stays registered and unreleased, and the timer of the key stays
\* armed.
C14_ToolErrorKeepsSession ==
  [][\A r \in Ids :
       (Answered(r) /\ IsEnvelope(resp'[r].body) /\ ~resp'[r].body.success)
       => LET k == reqs[r].key IN
            /\ UNCHANGED <<servers, sessions, sessionTimers, armed, rels>>
            /\ sessions'[k] # 0
            /\ sessions'[k] \in Range(servers')
            /\ Calls(rels', sessions'[k]) = {}
            /\ sessionTimers'[k] # 0
            /\ armed'[sessionTimers'[k]] # NotArmed]_vars

C14_Witness ==
  \E r \in Ids :
    /\ resp[r].status = 500 /\ resp[r].handler.kind = "throws"
    /\ sessions[reqs[r].key] = reqs[r].server
    /\ armed[sessionTimers[reqs[r].key]] # NotArmed

\* C20: the key of a request is the value of its Session-Id header, and
\* "default" when the header is absent or empty; so a request without the
\* header and one with Session-Id: default look up the same binding, and
\* with that key bound both are dispatched to its instance.
C20_HeaderIsKeyDefaultWhenAbsent ==
  [][\A r \in Ids :
       (reqs[r].pc = "new" /\ reqs'[r].pc # "new")
       => LET h == wire'[r].hdr
              k == IF h \in {"", "default"} THEN "default" ELSE h
          IN /\ reqs'[r].key = k
             /\ IF sessions[k] # 0
                THEN /\ reqs'[r].pc = "dispatch"
                     /\ reqs'[r].server = sessions[k]
                     /\ sessions' = sessions
                ELSE reqs'[r].pc = "creating"]_vars

C20_Witness ==
  \E r, q \in Ids :
    /\ reqs[r].pc = "done" /\ reqs[q].pc = "done"
    /\ wire[r].hdr = "" /\ wire[q].hdr = "default"
    /\ reqs[r].server = reqs[q].server
    /\ sessions["default"] = reqs[r].server

\* C15: the failure of one request never ends the process: not a factory
\* failure in the HTTP session middleware and not a factory failure in the
\* SSE GET handler.
C15_RequestFailureKeepsProcess ==
  [][/\ \A r \in Ids :
          (reqs[r].pc = "creating" /\ reqs'[r].pc = "failed") => proc' = "running"
     /\ \A c \in Ids :
          (conns[c].pc = "creating" /\ conns'[c].pc = "failed") => proc' = "running"]_vars

\* C16: an accepted SSE connection that has closed, whenever it closed, has
\* its key removed from the SSE sessions map and its instance released once
\* the instance exists.
C16_NoInstanceOutlivesConnection ==
  \A c \in Ids :
    (conns[c].pc = "bound" /\ ~conns[c].open)
      => c \notin sseSessions /\ Calls(rels, c) # {}

\* C17: an SSE POST naming a key with no open connection (never issued, or
\* its connection closed) is answered 404, and no POST creates an instance.
C17_PostWithoutConnectionIs404 ==
  [][(ssePost' # ssePost /\ ssePost'.key # 0)
       => /\ servers' = servers
          /\ ~conns[ssePost'.key].open => ssePost'.status = "404"]_vars

\* C18: once a termination signal or the close of stdin has been handled,
\* the process ends, even when a release never completes.
C18_ExitsAfterSignal == (hxCalls > 0) ~> ~Running

C18_Witness ==
  /\ proc = "exit:force"
  /\ \E r \in rels : r.st = "pending"

\* The requests that have arrived with key j.
RequestsOf(j) == {r \in Ids : reqs[r].pc # "new" /\ reqs[r].key = j}

\* What the adapter holds for key j: its binding, its recorded timer, the
\* timers armed for it, its registered instances and the releases of them.
KeyState(j) ==
  <<sessions[j], sessionTimers[j],
    [t \in RequestsOf(j) |-> armed[t]],
    RequestsOf(j) \cap Range(servers),
    {x \in rels : x.inst \in RequestsOf(j)}>>

\* A step of the processing of key k: one of its requests moves, one of its
\* timers fires, or one of its evictions ends.
ActsOn(k) ==
  \/ \E r \in Ids : reqs'[r] # reqs[r] /\ reqs'[r].key = k
  \/ /\ gsDone' = gsDone
     /\ \E t \in RequestsOf(k) : armed[t] = 0 /\ armed'[t] = NotArmed
  \/ \E x \in rels : /\ x.kind = "ev" /\ x.st = "pending"
                      /\ KeyOfTimer(x.id) = k /\ x \notin rels'

\* C19: a step of the processing of key k (arrival, creation, timer re-arm,
\* dispatch, eviction) leaves the binding, the instance and the timers of
\* every other key as they were, and an instance created for k is a new one,
\* bound to no other key.
C19_KeysIndependent ==
  [][\A k \in Keys :
       ActsOn(k) =>
         /\ \A j \in Keys \ {k} : KeyState(j)' = KeyState(j)
         /\ \A r \in Ids :
              (reqs[r].pc = "creating" /\ reqs'[r].pc = "dispatch")
              => /\ reqs'[r].server \notin Range(servers)
                 /\ \A j \in Keys : sessions[j] # reqs'[r].server
                 /\ sessions'[k] = reqs'[r].server]_vars

C19_Witness ==
  \E r, q \in Ids :
    /\ r < q
    /\ reqs[r].pc = "creating" /\ reqs[q].pc = "done"
    /\ reqs[q].key # reqs[r].key
    /\ sessions[reqs[q].key] = q
    /\ armed[q] # NotArmed

\* C21: serving GET /openapi.json creates no instance, binds no session key
\* and arms no eviction timer.
C21_DiscoveryHasNoSessionEffect ==
  \A r \in Ids :
    wire[r].path = "/openapi.json"
      => /\ r \notin Range(servers)
         /\ \A k \in Keys : sessions[k] # r /\ sessionTimers[k] # r
         /\ armed[r] = NotArmed

\* C23: on /tools/<name>, a GET calls callTool only for browser_tab_list and
\* then with empty arguments, a GET for another name calls no handler, and a
\* POST calls callTool with the name of the URL and the request body (an
\* empty object without one); the call is made on the instance the
\* middleware gave the request for its key.
C23_RoutesDispatch ==
  [][\A r \in Ids :
       (Answered(r) /\ reqs[r].pc = "dispatch" /\ wire[r].path = "/tools")
       => LET w == wire[r]
              c == resp'[r].call
          IN /\ (w.method = "GET" /\ w.name = "browser_tab_list")
                  => c = [name |-> "browser_tab_list", args |-> "{}"]
             /\ (w.method = "GET" /\ w.name # "browser_tab_list")
                  => c = NoCall /\ resp'[r].handler = NotCalled
             /\ w.method = "POST"
                  => c = [name |-> w.name,
                          args |-> IF w.body = "" THEN "{}" ELSE w.body]
             /\ (resp'[r].handler # NotCalled) = (c.name \in Tools)
             /\ reqs'[r].server = reqs[r].server
             /\ reqs[r].server # 0]_vars

C23_Witness ==
  /\ \E r \in Ids : /\ wire[r].method = "GET" /\ wire[r].body = "{url}"
                     /\ resp[r].call = [name |-> "browser_tab_list", args |-> "{}"]
                     /\ resp[r].status = 200
  /\ \E r \in Ids : /\ wire[r].method = "POST"
                     /\ resp[r].call = [name |-> "browser_navigate", args |-> "{url}"]

\* A request arrives in this step.
Arrives(r) == reqs[r].pc = "new" /\ reqs'[r].pc # "new"

\* C22: once the timer of key k has fired and the eviction of its instance
\* has begun, a request arriving on k is never dispatched to that instance.
C22_RequestAfterTimeoutGetsNewInstance ==
  [][\A r \in Ids :
       Arrives(r) =>
         \A x \in rels : x.kind = "ev" => reqs'[r].server # x.inst]_vars

\* C26: while a request is being dispatched on an instance, no release of
\* that instance is started (no server.close call on it, by an eviction or
\* by closeAll).
C26_NoReleaseDuringDispatch ==
  [][\A r \in Ids :
       reqs[r].pc = "dispatch"
         => Calls(rels', reqs[r].server) \subseteq Calls(rels, reqs[r].server)]_vars

\* C27: no dispatch starts on an instance whose release has begun.
C27_NoDispatchOnReleasedInstance ==
  [][\A r \in Ids :
       (reqs[r].pc # "dispatch" /\ reqs'[r].pc = "dispatch")
         => Calls(rels, reqs'[r].server) = {}]_vars

\* C28: when the release awaited by the eviction of key k fails, k is bound
\* to the released instance no more, k has no recorded timer, and the
\* process goes on.
C28_EvictionSurvivesReleaseFailure ==
  [][\A x \in rels :
       (x.kind = "ev" /\ x.st = "pending" /\ [x EXCEPT !.st = "fail"] \in rels')
       => /\ sessions'[KeyOfTimer(x.id)] # x.inst
          /\ sessionTimers'[KeyOfTimer(x.id)] = 0
          /\ proc' = "running"]_vars

C30_CloseRemovesEntryAndTimer ==
  [][\A i \in Ids :
       (\E c \in Calls(rels', i) \ Calls(rels, i) : c[1] \in {"ev", "sse"})
       => /\ servers' = RegistryAfterClose(servers, i)
          /\ mode = "http"
               => \A t \in Ids :
                    IF t \in RequestsOf(KeyOfInstance(i))
                    THEN armed'[t] = NotArmed
                    ELSE armed'[t] = armed[t]]_vars

\* Every instance created so far: those registered and those released.
Created == Range(servers) \cup {x.inst : x \in rels}

\* C24: the adapter started is the HTTP one when --http-port has a value,
\* else the SSE one when --port has a value, else the stdio one; the two
\* other adapters never do anything; and the stdio adapter creates one
\* instance, without a session key, and never another.
C24_OneTransportStarted ==
  /\ mode = IF Truthy(options.httpPort) THEN "http"
            ELSE IF Truthy(options.port) THEN "sse" ELSE "stdio"
  /\ mode # "http"
       => /\ reqs = [r \in Ids |-> NoReq]
          /\ sessions = [k \in Keys |-> 0]
          /\ sessionTimers = [k \in Keys |-> 0]
          /\ gsCalls = 0
  /\ mode # "sse"
       => conns = [c \in Ids |-> NoConn] /\ sseSessions = {} /\ ssePost = NoPost
  /\ mode # "stdio" => stdio = "off"
  /\ mode = "stdio"
       => /\ Created \subseteq {1}
          /\ Len(servers) <= 1
          /\ (1 \in Created) = (stdio = "connected")
          /\ stdio = "failed" => ~Running

C24_Witness ==
  /\ mode = "stdio" /\ options.httpPort = "" /\ options.port = Undefined
  /\ stdio = "connected"
  /\ hxCalls > 0
  /\ \E x \in rels : x.inst = 1 /\ x.st = "ok"

\* The unsuffixed profile directory.
DefaultProfile ==
  PathJoin(CacheDirectory(platform), <<"ms-playwright">>,
           <<"mcp-" \o BrowserNameOf(options.browser) \o "-profile">>)

\* C25: without --user-data-dir, a call without a key or with the key
\* "default" gets the unsuffixed directory, a call with another key gets a
\* directory other than the unsuffixed one, and two calls with distinct keys
\* other than "default" get distinct directories; with --user-data-dir,
\* every call gets that directory.
C25_ProfileDirectoryPerKey ==
  \A m, n \in 1..Len(made) :
    LET a == made[m]
        b == made[n]
    IN (~a.result.threw /\ ~b.result.threw)
       => IF options.userDataDir # NoPath
          THEN a.result.dir = options.userDataDir
          ELSE /\ ~HasSuffix(a.sessionId) => a.result.dir = DefaultProfile
               /\ HasSuffix(a.sessionId) => a.result.dir # DefaultProfile
               /\ (HasSuffix(a.sessionId) /\ HasSuffix(b.sessionId)
                   /\ a.sessionId # b.sessionId)
                  => a.result.dir # b.result.dir

\* C31: handleExit and the callback of gracefulShutdown call process.exit
\* only when every instance whose release they started (closeAll's, the
\* callback's) has a release that settled.
C31_GracefulExitAfterReleases ==
  [][(Running /\ proc' \in {"exit:handleExit", "exit:graceful"})
       => \A x \in rels' :
            (x.kind \in {"hx", "gs"} /\ x.st = "pending")
              => \E y \in rels' : y.inst = x.inst /\ y.st # "pending"]_vars

\* C32: an instance in the registry, once its creating request or
\* connection has recorded it, is the value of exactly one key of the
\* adapter's sessions map.
C32_RegisteredInstanceHasOneKey ==
  /\ mode = "http"
       => \A i \in Range(servers) :
            Cardinality({k \in Keys : sessions[k] = i}) = 1
  /\ mode = "sse" => Range(servers) \subseteq sseSessions

\* C33: the step in which the callback of gracefulShutdown does its cleanup
\* leaves the sessions and sessionTimers maps empty, has started a release
\* of every instance that was bound, and leaves no eviction timer armed.
C33_CleanupLeavesNothing ==
  [][gsDone' # gsDone
       => /\ sessions' = [k \in Keys |-> 0]
          /\ sessionTimers' = [k \in Keys |-> 0]
          /\ \A k \in Keys :
               sessions[k] # 0
                 => \E c \in Calls(rels', sessions[k]) \ Calls(rels, sessions[k]) :
                      c[1] = "gs"
          /\ armed' = [t \in Ids |-> NotArmed]]_vars

\* C34: on the SSE adapter the instances alive (created and not released)
\* are never more than the open connections.
C34_SseInstancesWithinConnections ==
  mode = "sse"
    => Cardinality({i \in Created : Calls(rels, i) = {}})
         <= Cardinality({c \in Ids : conns[c].open})

\* C35: a request that the router refuses (no route for its path, or its
\* method not allowed) is answered only after the session middleware has
\* run for it; and when the middleware passes it on, its key is bound to a
\* registered instance, created by this request when the key was unbound,
\* and the key's timer has been armed anew by this request.
C35_MiddlewareRunsBeforeRouting ==
  [][\A r \in Ids :
       /\ (Answered(r) /\ resp'[r].status \in {404, 405})
            => reqs[r].pc = "dispatch" /\ reqs[r].server # 0
       /\ (reqs[r].pc # "dispatch" /\ reqs'[r].pc = "dispatch" /\ Rejects(wire'[r]))
            => LET k == reqs'[r].key IN
                 /\ sessions'[k] = reqs'[r].server
                 /\ sessions'[k] \in Range(servers')
                 /\ sessions[k] = 0 => (sessions'[k] = r /\ r \notin Range(servers))
                 /\ sessionTimers'[k] = r
                 /\ armed'[r] = sessionTimeout]_vars

C35_Witness ==
  \E r, q \in Ids :
    /\ resp[r].status = 405 /\ resp[q].status = 404
    /\ sessions[reqs[r].key] = r /\ r \in Range(servers)
    /\ sessions[reqs[q].key] = r
    /\ sessionTimers[reqs[q].key] = q /\ armed[q] = sessionTimeout

\* The HTTP method of an operation of the listing.
MethodOf(m) == IF m = "get" THEN "GET" ELSE "POST"

\* C37: the listing sent by GET /openapi.json has exactly one entry per
\* registered tool, at path /tools/<name>, under get when the tool is
\* browser_tab_list and under post otherwise, and a request made as an
\* entry says is dispatched by the router to the handler of that tool.
C37_ListingMatchesRoutes ==
  [][\A r \in Ids :
       (Answered(r) /\ reqs[r].pc = "dispatch"
          /\ wire[r].path = "/openapi.json" /\ wire[r].method = "GET")
       => /\ resp'[r].status = 200
          /\ resp'[r].body.type = "openapi"
          /\ LET L == resp'[r].body.paths IN
               /\ \A n \in Tools :
                    Cardinality({e \in L : e.path = "/tools/" \o n}) = 1
               /\ \A e \in L :
                    /\ e.operationId \in Tools
                    /\ e.path = "/tools/" \o e.operationId
                    /\ e.method = IF e.operationId = "browser_tab_list"
                                  THEN "get" ELSE "post"
                    /\ \A o \in HandlerOutcomes, b \in Bodies :
                         LET a == Router([hdr |-> "", method |-> MethodOf(e.method),
                                          path |-> "/tools", name |-> e.operationId,
                                          body |-> b], o)
                         IN a.call.name = e.operationId /\ a.handler = o]_vars

C37_Witness ==
  \E r, q \in Ids :
    /\ resp[r].status = 200 /\ resp[r].body.type = "openapi"
    /\ wire[q].path = "/tools" /\ wire[q].method = "POST"
    /\ wire[q].name = "browser_navigate"
    /\ resp[q].handler # NotCalled

\* C36: for every invocation, callTool returns exactly when the MCP handler
\* returns a result without isError, and then both return the handler's
\* result; callTool throws exactly when the MCP handler returns a result
\* with isError; and the tool's handler runs on one path exactly when it
\* runs on the other.
C36_PathsClassifyAlike ==
  \A n \in 1..Len(invoked) :
    LET e == invoked[n] IN
      /\ e.http.threw = e.mcp.isError
      /\ ~e.http.threw => e.http.value = e.mcp.text
      /\ e.http.handled = e.mcp.handled

C36_Witness ==
  \E m, n \in 1..Len(invoked) :
    /\ invoked[m].name \in Tools /\ invoked[m].outcome.kind = "throws"
    /\ invoked[m].http.threw /\ invoked[m].mcp.isError
    /\ invoked[n].name \in Tools /\ ~invoked[n].outcome.isError
    /\ ~invoked[n].http.threw /\ ~invoked[n].mcp.isError

====
